---- MODULE Spec2Model ----
(***************************************************************************)
(* Model of deteccion_tiempo_real.py: the start-up sequence, the capture / *)
(* inference / alert / display / keyboard loop, and the except / finally   *)
(* shutdown block.  One action per block of the script; a KeyboardInterrupt*)
(* may arrive between any two blocks of the loop.  Confidences are held in *)
(* thousandths.  The FPS counter of lines 76-81 and the pixels of the      *)
(* images are left out: an image is the frame it was plotted from plus the *)
(* banner count and the status text drawn on it.                           *)
(***************************************************************************)
EXTENDS Integers, Sequences, FiniteSets, TLC

VARIABLES
    pc,                     \* position of the script
    clases_peligrosas_ids,  \* list built at lines 31-35
    aperturas,              \* number of cv2.VideoCapture(0) calls
    cap_abierta,            \* cap.isOpened()
    definidos,              \* which session counters have been created
    alertas_totales,        \* line 65
    log_eventos,            \* line 66
    reloj,                  \* wall clock, in seconds (datetime.now())
    frame,                  \* identity of the frame returned by cap.read()
    resultados,             \* list returned by modelo.predict
    objetos_detectados,     \* line 87
    frame_anotado,          \* line 91; Unbound until first assigned
    idx,                    \* position of the for loop of line 123; 0 outside it
    impreso,                \* whether the current pass of that loop printed
    estado,                 \* lines 148-153
    ventana,                \* the window of cv2.imshow
    aviso,                  \* which exit message was printed
    liberaciones,           \* number of cap.release() calls
    cierres,                \* number of cv2.destroyAllWindows() calls
    resumenes,              \* session summaries printed by the finally block
    error                   \* exception propagating out of the script

arranque == <<clases_peligrosas_ids, aperturas, cap_abierta, definidos>>
sesion == <<alertas_totales, log_eventos>>
iteracion == <<frame, resultados, objetos_detectados, frame_anotado, idx,
               impreso, estado>>
cierre == <<liberaciones, cierres, resumenes>>

vars == <<pc, arranque, sesion, reloj, iteracion, ventana, aviso, cierre,
          error>>

----------------------------------------------------------------------------
(* Bounds of the model *)

MaxAlertas == 12    \* cap on alertas_totales, hence on len(log_eventos)
MaxReloj == 1       \* the clock takes the values 0..MaxReloj
NumFrames == 2      \* frame identities cycle through 1..NumFrames

----------------------------------------------------------------------------
(* Static configuration *)

\* OBJETOS_PELIGROSOS, lines 12-19: class name -> alert text
OBJETOS_PELIGROSOS ==
    [n \in {"bottle", "knife", "baseball bat", "scissors", "fork", "spoon"} |->
        CASE n = "bottle"       -> "BOTELLA"
          [] n = "knife"        -> "CUCHILLO"
          [] n = "baseball bat" -> "BATE"
          [] n = "scissors"     -> "TIJERAS"
          [] n = "fork"         -> "TENEDOR"
          [] n = "spoon"        -> "CUCHARA"]

\* modelo.names of yolov8n.pt (the COCO table), restricted to the six danger
\* classes and two harmless ones, in the order the dict is iterated
MODELO_NAMES ==
    << [idx |-> 0,  nombre |-> "person"],
       [idx |-> 34, nombre |-> "baseball bat"],
       [idx |-> 39, nombre |-> "bottle"],
       [idx |-> 41, nombre |-> "cup"],
       [idx |-> 42, nombre |-> "fork"],
       [idx |-> 43, nombre |-> "knife"],
       [idx |-> 44, nombre |-> "spoon"],
       [idx |-> 76, nombre |-> "scissors"] >>

ClassIds == {MODELO_NAMES[i].idx : i \in DOMAIN MODELO_NAMES}

\* modelo.names[clase_id]
NombreDe(id) ==
    MODELO_NAMES[CHOOSE i \in DOMAIN MODELO_NAMES : MODELO_NAMES[i].idx = id].nombre

\* conf=0.3 of line 84, in thousandths
CONF == 300

\* the window of line 136 and the slice of line 199
VENTANA == 5
ULTIMOS == 10

\* ord('q'), ord('s'), ord('r')
ORD_Q == 113
ORD_S == 115
ORD_R == 114

----------------------------------------------------------------------------
(* Helpers *)

Range(s) == {s[i] : i \in DOMAIN s}

MaxOf(a, b) == IF a >= b THEN a ELSE b

\* Python's s[-n:] for n > 0
UltimosN(s, n) == SubSeq(s, MaxOf(1, Len(s) - n + 1), Len(s))

\* format(c, '.0%') for a confidence of c thousandths: the percentage rounded
\* to the nearest integer, ties to even
Porcentaje(c) ==
    LET q == c \div 10
        r == c % 10
    IN  IF r > 5 THEN q + 1
        ELSE IF r < 5 THEN q
        ELSE IF q % 2 = 0 THEN q ELSE q + 1

\* line 135: f"[{timestamp}] {obj['alerta']} - Confianza: {obj['confianza']:.0%}"
Evento(t, obj) == <<t, obj.alerta, Porcentaje(obj.confianza)>>

\* variant of EsNuevo that looks through the whole log
EsNuevo_todo_el_log(evento, log) == evento \notin Range(log)

\* line 136: evento not in [e for e in log_eventos[-5:]]
EsNuevo(evento, log) == evento \notin Range(UltimosN(log, VENTANA))

\* lines 31-35: the ids whose name is a key of OBJETOS_PELIGROSOS
IdsPeligrosos ==
    LET sel == SelectSeq(MODELO_NAMES,
                         LAMBDA e : e.nombre \in DOMAIN OBJETOS_PELIGROSOS)
    IN  [i \in DOMAIN sel |-> sel[i].idx]

\* the detector's confidence threshold: boxes under conf are not returned
Umbral(boxes, conf) == SelectSeq(boxes, LAMBDA b : b.conf >= conf)

\* lines 94-108: the Detections of one result object
RECURSIVE Filtrar(_, _)
Filtrar(boxes, ids) ==
    IF boxes = <<>> THEN <<>>
    ELSE LET box == Head(boxes)
             resto == Filtrar(Tail(boxes), ids)
         IN  IF box.cls \in Range(ids)
             THEN << [nombre    |-> NombreDe(box.cls),
                      alerta    |-> OBJETOS_PELIGROSOS[NombreDe(box.cls)],
                      confianza |-> box.conf] >> \o resto
             ELSE resto

\* lines 89-108 over every result object
RECURSIVE Detectar(_, _)
Detectar(res, ids) ==
    IF res = <<>> THEN <<>>
    ELSE Filtrar(Head(res).boxes, ids) \o Detectar(Tail(res), ids)

\* the value of a name that was never assigned
Unbound == [src |-> 0, banner |-> 0, estado |-> "ninguno"]

\* r.plot(): a fresh annotated copy of the frame the result was computed from
Plot(r) == [src |-> r.orig, banner |-> 0, estado |-> "ninguno"]

----------------------------------------------------------------------------
(* Inputs *)

Box(c, p) == [cls |-> c, conf |-> p]

\* what the camera may see in one frame: the raw boxes of the detector before
\* its confidence threshold
Escenas ==
    { <<>>,
      << Box(0, 900) >>,
      << Box(43, 250) >>,
      << Box(43, 804), Box(39, 404) >>,
      << Box(43, 800) >>,
      << Box(43, 804), Box(43, 800) >>,
      << Box(39, 404), Box(43, 804), Box(34, 500), Box(0, 900),
         Box(76, 620), Box(42, 500), Box(44, 310) >> }

\* values returned by cv2.waitKey(1): no key, q, r, s, x, q with a flag bit
TECLAS == {-1, 113, 114, 115, 120, 1048689}

\* how many result objects modelo.predict may return for one frame
NumResultados == {0, 1}

----------------------------------------------------------------------------
(* The script *)

Init ==
    /\ pc = "cargar"
    /\ clases_peligrosas_ids = <<>>
    /\ aperturas = 0
    /\ cap_abierta = FALSE
    /\ definidos = {}
    /\ alertas_totales = 0
    /\ log_eventos = <<>>
    /\ reloj = 0
    /\ frame = 0
    /\ resultados = <<>>
    /\ objetos_detectados = <<>>
    /\ frame_anotado = Unbound
    /\ idx = 0
    /\ impreso = FALSE
    /\ estado = "ninguno"
    /\ ventana = "ninguna"
    /\ aviso = "ninguno"
    /\ liberaciones = 0
    /\ cierres = 0
    /\ resumenes = <<>>
    /\ error = "ninguno"

EnBucle == {"leer", "predecir", "procesar", "alertar", "registrar",
            "informar", "teclado"}

\* lines 25-42: load the model, collect the danger ids, print the controls
CargarModelo ==
    /\ pc = "cargar"
    /\ clases_peligrosas_ids' = IdsPeligrosos
    /\ pc' = "abrir"
    /\ UNCHANGED <<aperturas, cap_abierta, definidos, sesion, reloj, iteracion,
                   ventana, aviso, cierre, error>>

\* variant of AbrirCamara that prints the guidance but does not exit
AbrirCamara_sin_exit ==
    /\ pc = "abrir"
    /\ aperturas' = aperturas + 1
    /\ \E abierta \in BOOLEAN :
        /\ cap_abierta' = abierta
        /\ aviso' = IF abierta THEN aviso ELSE "sin camara"
    /\ pc' = "leer"
    /\ definidos' = {"alertas_totales", "log_eventos"}
    /\ UNCHANGED <<clases_peligrosas_ids, sesion, reloj, iteracion, ventana,
                   cierre, error>>

\* lines 45-66: open the camera; exit() if it is not opened, otherwise
\* configure it and create the counters
AbrirCamara ==
    /\ pc = "abrir"
    /\ aperturas' = aperturas + 1
    /\ \E abierta \in BOOLEAN :
        /\ cap_abierta' = abierta
        /\ IF ~abierta
           THEN /\ aviso' = "sin camara"
                /\ pc' = "salida"
                /\ UNCHANGED definidos
           ELSE /\ pc' = "leer"
                /\ definidos' = {"alertas_totales", "log_eventos"}
                /\ UNCHANGED aviso
    /\ UNCHANGED <<clases_peligrosas_ids, sesion, reloj, iteracion, ventana,
                   cierre, error>>

\* lines 70-74: cap.read(); a failed read breaks out of the loop
LeerFrame ==
    /\ pc = "leer"
    /\ \E ret \in BOOLEAN :
        IF ~ret
        THEN /\ aviso' = "error de captura"
             /\ pc' = "finally"
             /\ UNCHANGED frame
        ELSE /\ pc' = "predecir"
             /\ frame' = (frame % NumFrames) + 1
             /\ UNCHANGED aviso
    /\ UNCHANGED <<arranque, sesion, reloj, resultados, objetos_detectados,
                   frame_anotado, idx, impreso, estado, ventana, cierre,
                   error>>

\* variant of Prediccion that leaves conf out, so the detector's default of
\* 0.25 applies
Prediccion_conf_por_defecto(escena, f, n) ==
    [i \in 1..n |-> [orig |-> f, boxes |-> Umbral(escena, 250)]]

\* line 84: modelo.predict(source=frame, conf=0.3, verbose=False) on a frame
\* showing escena, returning n result objects
Prediccion(escena, f, n) ==
    [i \in 1..n |-> [orig |-> f, boxes |-> Umbral(escena, CONF)]]

\* line 84; the detections it will add stay within the cap of the model
Predecir ==
    /\ pc = "predecir"
    /\ \E escena \in Escenas, n \in NumResultados :
        LET res == Prediccion(escena, frame, n)
            k == Len(Detectar(res, clases_peligrosas_ids))
        IN  /\ alertas_totales + k <= MaxAlertas
            /\ resultados' = res
    /\ pc' = "procesar"
    /\ UNCHANGED <<arranque, sesion, reloj, frame, objetos_detectados,
                   frame_anotado, idx, impreso, estado, ventana, aviso,
                   cierre, error>>

\* lines 87-108: frame_anotado is assigned once per result object
ProcesarResultados ==
    /\ pc = "procesar"
    /\ objetos_detectados' = Detectar(resultados, clases_peligrosas_ids)
    /\ frame_anotado' = IF resultados = <<>> THEN frame_anotado
                        ELSE Plot(resultados[Len(resultados)])
    /\ pc' = "alertar"
    /\ UNCHANGED <<arranque, sesion, reloj, frame, resultados, idx, impreso,
                   estado, ventana, aviso, cierre, error>>

\* variant of Alertar that counts one alert per frame with detections
Alertar_una_por_frame ==
    /\ pc = "alertar"
    /\ IF objetos_detectados # <<>>
       THEN /\ alertas_totales' = alertas_totales + 1
            /\ frame_anotado' =
                   [frame_anotado EXCEPT !.banner = Len(objetos_detectados)]
            /\ idx' = 1
            /\ pc' = "registrar"
       ELSE /\ pc' = "informar"
            /\ UNCHANGED <<alertas_totales, frame_anotado, idx>>
    /\ UNCHANGED <<arranque, log_eventos, reloj, frame, resultados,
                   objetos_detectados, impreso, estado, ventana, aviso,
                   cierre, error>>

\* lines 111-122: count the alerts and draw the banner
Alertar ==
    /\ pc = "alertar"
    /\ IF objetos_detectados # <<>>
       THEN /\ alertas_totales' = alertas_totales + Len(objetos_detectados)
            /\ frame_anotado' =
                   [frame_anotado EXCEPT !.banner = Len(objetos_detectados)]
            /\ idx' = 1
            /\ pc' = "registrar"
       ELSE /\ pc' = "informar"
            /\ UNCHANGED <<alertas_totales, frame_anotado, idx>>
    /\ UNCHANGED <<arranque, log_eventos, reloj, frame, resultados,
                   objetos_detectados, impreso, estado, ventana, aviso,
                   cierre, error>>

\* lines 123-138, one pass of the for loop: draw the chip, format the line,
\* print and append it unless it is among the last entries
Registrar ==
    /\ pc = "registrar"
    /\ IF idx > Len(objetos_detectados)
       THEN /\ pc' = "informar"
            /\ idx' = 0
            /\ impreso' = FALSE
            /\ UNCHANGED log_eventos
       ELSE LET evento == Evento(reloj, objetos_detectados[idx])
            IN  /\ impreso' = EsNuevo(evento, log_eventos)
                /\ log_eventos' = IF EsNuevo(evento, log_eventos)
                                  THEN Append(log_eventos, evento)
                                  ELSE log_eventos
                /\ idx' = idx + 1
                /\ pc' = "registrar"
    /\ UNCHANGED <<arranque, alertas_totales, reloj, frame, resultados,
                   objetos_detectados, frame_anotado, estado, ventana,
                   aviso, cierre, error>>

\* lines 141-163: FPS, status and total drawn on frame_anotado, then imshow;
\* reading a frame_anotado that was never assigned raises NameError, which
\* the except clause does not catch
Informar ==
    /\ pc = "informar"
    /\ IF frame_anotado = Unbound
       THEN /\ error' = "NameError"
            /\ pc' = "finally"
            /\ UNCHANGED <<estado, frame_anotado, ventana>>
       ELSE LET e == IF objetos_detectados # <<>> THEN "ALERTA ACTIVA"
                                                  ELSE "ZONA SEGURA"
            IN  /\ estado' = e
                /\ frame_anotado' = [frame_anotado EXCEPT !.estado = e]
                /\ ventana' = "abierta"
                /\ pc' = "teclado"
                /\ UNCHANGED error
    /\ UNCHANGED <<arranque, sesion, reloj, frame, resultados,
                   objetos_detectados, idx, impreso, aviso, cierre>>

\* line 166: cv2.waitKey(1) & 0xFF
Tecla(raw) == raw % 256

\* variant of TeclaQ that releases the camera before leaving the loop
TeclaQ_libera ==
    /\ aviso' = "deteniendo"
    /\ liberaciones' = liberaciones + 1
    /\ pc' = "finally"
    /\ UNCHANGED <<sesion, cierres, resumenes>>

\* lines 168-170
TeclaQ ==
    /\ aviso' = "deteniendo"
    /\ pc' = "finally"
    /\ UNCHANGED <<sesion, cierre>>

\* lines 171-175: cv2.imwrite of frame_anotado; the file is not modelled
TeclaS ==
    /\ pc' = "leer"
    /\ UNCHANGED <<sesion, aviso, cierre>>

\* variant of TeclaR that drops only the trailing window of the log
TeclaR_solo_ventana ==
    /\ alertas_totales' = 0
    /\ log_eventos' = SubSeq(log_eventos, 1, Len(log_eventos) - VENTANA)
    /\ pc' = "leer"
    /\ UNCHANGED <<aviso, cierre>>

\* lines 176-180
TeclaR ==
    /\ alertas_totales' = 0
    /\ log_eventos' = <<>>
    /\ pc' = "leer"
    /\ UNCHANGED <<aviso, cierre>>

\* variant of Despachar whose last branch is an else: any other key resets
Despachar_otra_reinicia(key) ==
    IF key = ORD_Q THEN TeclaQ
    ELSE IF key = ORD_S THEN TeclaS
    ELSE TeclaR

\* lines 168-180: the if / elif chain on key; any other key falls through
Despachar(key) ==
    IF key = ORD_Q THEN TeclaQ
    ELSE IF key = ORD_S THEN TeclaS
    ELSE IF key = ORD_R THEN TeclaR
    ELSE /\ pc' = "leer"
         /\ UNCHANGED <<sesion, aviso, cierre>>

\* lines 166-180: keyboard poll and dispatch
Teclado ==
    /\ pc = "teclado"
    /\ \E raw \in TECLAS : Despachar(Tecla(raw))
    /\ UNCHANGED <<arranque, reloj, frame, resultados, objetos_detectados,
                   frame_anotado, idx, impreso, estado, ventana, error>>

\* lines 182-183: Ctrl-C while the loop runs is caught by the except clause
Interrumpir ==
    /\ pc \in EnBucle
    /\ aviso' = "interrupcion"
    /\ pc' = "finally"
    /\ UNCHANGED <<arranque, sesion, reloj, iteracion, ventana, cierre, error>>

\* variant of Resumen that prints the first entries of the log
Resumen_primeros(total, log) ==
    [ total   |-> total,
      unicos  |-> Len(log),
      titulo  |-> (log # <<>>),
      eventos |-> SubSeq(log, 1, IF Len(log) < ULTIMOS THEN Len(log) ELSE ULTIMOS) ]

\* lines 194-200: the session summary
Resumen(total, log) ==
    [ total   |-> total,
      unicos  |-> Len(log),
      titulo  |-> (log # <<>>),
      eventos |-> IF log # <<>> THEN UltimosN(log, ULTIMOS) ELSE <<>> ]

\* lines 185-203: release the camera, close the windows, print the summary
Finally ==
    /\ pc = "finally"
    /\ liberaciones' = liberaciones + 1
    /\ cierres' = cierres + 1
    /\ ventana' = "cerrada"
    /\ resumenes' = Append(resumenes, Resumen(alertas_totales, log_eventos))
    /\ pc' = "fin"
    /\ UNCHANGED <<arranque, sesion, reloj, iteracion, aviso, error>>

\* a second of wall-clock time passes while the loop runs
Tic ==
    /\ pc \in EnBucle
    /\ reloj < MaxReloj
    /\ reloj' = reloj + 1
    /\ UNCHANGED <<pc, arranque, sesion, iteracion, ventana, aviso, cierre,
                   error>>

Next ==
    \/ CargarModelo
    \/ AbrirCamara
    \/ LeerFrame
    \/ Predecir
    \/ ProcesarResultados
    \/ Alertar
    \/ Registrar
    \/ Informar
    \/ Teclado
    \/ Interrumpir
    \/ Finally
    \/ Tic

Spec == Init /\ [][Next]_vars

----------------------------------------------------------------------------
(* Properties *)

TrasElBucle == {"finally", "fin"}

\* C1: every way out of the loop leads to the finally block, which runs once:
\* one release, one destroyAllWindows, one summary; once the loop is left no
\* frame is read, no inference is run and nothing is shown
C1_ApagadoUnaVez ==
    /\ [](/\ liberaciones <= 1 /\ cierres <= 1 /\ Len(resumenes) <= 1
          /\ pc = "fin" =>
                liberaciones = 1 /\ cierres = 1 /\ Len(resumenes) = 1
          /\ pc \in EnBucle \cup {"finally"} =>
                liberaciones = 0 /\ cierres = 0 /\ resumenes = <<>>)
    /\ [][/\ (pc \in EnBucle /\ pc' \notin EnBucle) => pc' = "finally"
          /\ pc = "finally" => pc' = "fin"
          /\ pc \in TrasElBucle =>
                /\ pc' \in TrasElBucle
                /\ frame' = frame
                /\ resultados' = resultados
                /\ frame_anotado' = frame_anotado
                /\ ventana' # "abierta"]_vars

\* C1 witness: the loop was interrupted in the middle of the logging loop of
\* a frame and the shutdown block has run
C1_Testigo ==
    /\ pc = "fin" /\ aviso = "interrupcion" /\ idx = 2
    /\ liberaciones = 1 /\ ventana = "cerrada"

\* C2: a formatted line is appended and printed exactly when no equal line is
\* among the last 5 entries; so entries at distance 5 or less always differ
C2_SinRepetidosCercanos ==
    /\ [](\A i, j \in 1..Len(log_eventos) :
            (i < j /\ j - i <= 5) => log_eventos[i] # log_eventos[j])
    /\ [][(pc = "registrar" /\ idx' = idx + 1) =>
            LET n == Len(log_eventos)
                linea == Evento(reloj, objetos_detectados[idx])
                cerca == \E i \in 1..n : n - i < 5 /\ log_eventos[i] = linea
            IN  IF cerca
                THEN log_eventos' = log_eventos /\ ~impreso'
                ELSE log_eventos' = Append(log_eventos, linea) /\ impreso']_vars

\* C2 witness: a line was recorded again 6 or more positions after an equal
\* entry
C2_Testigo ==
    \E i, j \in 1..Len(log_eventos) :
        j - i > 5 /\ log_eventos[i] = log_eventos[j]

\* C3: the step that handles key r leaves the alert count 0 and the whole
\* log empty and goes on to read the next frame
C3_Reinicio ==
    [][(pc = "teclado" /\ Despachar(ORD_R)) =>
        alertas_totales' = 0 /\ log_eventos' = <<>> /\ pc' = "leer"]_vars

\* C3 witness: the counters are clear and the next frame is about to be read
\* while the image on screen still shows an alert of the frame before the
\* reset
C3_Testigo ==
    /\ pc = "leer" /\ alertas_totales = 0 /\ log_eventos = <<>>
    /\ Len(objetos_detectados) = 6 /\ frame_anotado.banner = 6

\* C4: the event lines of the summary are the last min(10, len(log)) entries
\* of the log as it stands at exit, in append order; none for an empty log
C4_UltimosDiez ==
    pc = "fin" =>
        LET impresos == resumenes[1].eventos
            n == Len(log_eventos)
            m == IF n < 10 THEN n ELSE 10
        IN  /\ Len(impresos) = m
            /\ \A i \in 1..m : impresos[i] = log_eventos[n - m + i]
            /\ (n = 0) => (impresos = <<>> /\ ~resumenes[1].titulo)

\* C4 witness: the script ended with more than 10 entries in the log
C4_Testigo ==
    pc = "fin" /\ Len(log_eventos) > 10 /\ Len(resumenes[1].eventos) = 10

\* the boxes the result objects carry
Cajas == IF resultados = <<>> THEN <<>> ELSE resultados[1].boxes

\* C5: every Detection has a class name that is a key of OBJETOS_PELIGROSOS
\* and a confidence of at least 0.3; an id is in clases_peligrosas_ids exactly
\* when its name is such a key; the Detections of a frame are exactly its
\* boxes of those classes
C5_SoloPeligrosos ==
    /\ \A i \in DOMAIN objetos_detectados :
           /\ objetos_detectados[i].nombre \in DOMAIN OBJETOS_PELIGROSOS
           /\ objetos_detectados[i].confianza >= 300
    /\ pc # "cargar" =>
           \A id \in ClassIds :
               (\E i \in DOMAIN clases_peligrosas_ids :
                     clases_peligrosas_ids[i] = id)
               <=> NombreDe(id) \in DOMAIN OBJETOS_PELIGROSOS
    /\ pc \in {"alertar", "registrar", "informar", "teclado"} =>
           LET peligrosas ==
                   SelectSeq(Cajas, LAMBDA b :
                       NombreDe(b.cls) \in DOMAIN OBJETOS_PELIGROSOS)
           IN  /\ Len(objetos_detectados) = Len(peligrosas)
               /\ \A i \in DOMAIN peligrosas :
                      /\ objetos_detectados[i].nombre = NombreDe(peligrosas[i].cls)
                      /\ objetos_detectados[i].confianza = peligrosas[i].conf

\* C5 witness: a frame with seven boxes, one of them a person, gave six
\* Detections
C5_Testigo ==
    pc = "alertar" /\ Len(Cajas) = 7 /\ Len(objetos_detectados) = 6

\* C6: a frame with n Detections adds exactly n to the alert count, whatever
\* the de-dup does; with n = 0 the count and the log stay, no banner is drawn
\* and the status is ZONA SEGURA; with n >= 1 the banner shows n and the
\* status is ALERTA ACTIVA
C6_AlertasPorFrame ==
    /\ [](pc = "teclado" =>
            LET n == Len(objetos_detectados)
            IN  /\ estado = IF n = 0 THEN "ZONA SEGURA" ELSE "ALERTA ACTIVA"
                /\ frame_anotado.estado = estado
                /\ n >= 1 => frame_anotado.banner = n)
    /\ [][/\ (pc = "alertar" /\ pc' \in {"registrar", "informar"}) =>
                LET n == Len(objetos_detectados)
                IN  /\ alertas_totales' = alertas_totales + n
                    /\ n = 0 => /\ frame_anotado' = frame_anotado
                                /\ pc' = "informar"
                    /\ n >= 1 => frame_anotado'.banner = n
          /\ pc \in {"leer", "predecir", "procesar", "registrar", "informar"}
                => alertas_totales' = alertas_totales
          /\ pc \in {"leer", "predecir", "procesar", "alertar", "informar"}
                => log_eventos' = log_eventos]_vars

\* C6 witness: a frame with two Detections whose lines are equal was shown:
\* two alerts counted, one line recorded
C6_Testigo ==
    /\ pc = "teclado" /\ Len(objetos_detectados) = 2
    /\ alertas_totales = 2 /\ Len(log_eventos) = 1
    /\ frame_anotado.banner = 2

\* C7: whenever the overlay and display have run, the image they used was
\* plotted from the frame read in the same iteration, and frame_anotado is
\* never read before it is assigned
C7_FrameAnotadoDelFrame ==
    /\ error # "NameError"
    /\ pc = "teclado" => frame_anotado.src = frame

\* C8: the alert count or the length of the log decreases only in the step
\* that handles key r; every other key, and no key, leaves both unchanged
C8_SoloCreceOReinicia ==
    [][/\ (alertas_totales' < alertas_totales
             \/ Len(log_eventos') < Len(log_eventos))
            => (pc = "teclado" /\ Despachar(ORD_R))
       /\ (pc = "teclado" /\ \E raw \in TECLAS :
               Tecla(raw) # ORD_R /\ Despachar(Tecla(raw)))
            => UNCHANGED sesion]_vars

\* C8 witness: a key other than r was handled and the loop goes on with the
\* counters it had
C8_Testigo ==
    /\ pc = "leer" /\ frame > 0 /\ ventana = "abierta"
    /\ alertas_totales = 6 /\ Len(log_eventos) = 6

\* C9: the number printed as unique events is the number of distinct lines
\* of the log
C9_EventosUnicos ==
    pc = "fin" => resumenes[1].unicos = Cardinality(Range(log_eventos))

\* C10: when the camera cannot be opened the script has exited: it opened
\* the device once, read no frame, ran no inference, showed nothing, created
\* no counter, and takes no further step
C10_SinCamara ==
    /\ []((aperturas > 0 /\ ~cap_abierta) =>
            /\ pc = "salida" /\ aviso = "sin camara" /\ aperturas = 1
            /\ frame = 0 /\ resultados = <<>> /\ ventana = "ninguna"
            /\ definidos = {} /\ alertas_totales = 0 /\ log_eventos = <<>>
            /\ liberaciones = 0 /\ resumenes = <<>>)
    /\ [][pc # "salida"]_vars

\* C10 witness: the script has exited after failing to open the camera
C10_Testigo ==
    pc = "salida" /\ aperturas = 1 /\ ~cap_abierta

====
